---- MODULE Spec2Model ----
(***************************************************************************)
(* Google Trends batch normaliser (src/code.py).                           *)
(*                                                                         *)
(* The script loads every uploaded CSV batch, intersects the batches'      *)
(* keyword sets, takes one common keyword as the anchor, rescales every    *)
(* batch row by  anchor_ref / anchor  (anchor_ref: the first batch's       *)
(* anchor value at the row's date), concatenates the rescaled batches      *)
(* column-wise on the date index and drops duplicated column names.        *)
(*                                                                         *)
(* Numbers are exact extended rationals <<n, d>>: d > 0 is the reduced     *)
(* fraction n/d, <<0, 0>> is NaN and <<1, 0>> is +inf.  Floating-point     *)
(* rounding is not modelled; trend values are non-negative.                *)
(* Dates within one raw file are unique (a batch is keyed by date).        *)
(***************************************************************************)
EXTENDS Integers, Sequences, FiniteSets

\* ------------------------------------------------------------ bounds
\* at most MaxFiles uploaded files, holding at most MaxRows rows between them;
\* cell values 0..MaxVal; two calendar dates and two keyword names
MaxFiles == 2
MaxRows == 2
MaxVal == 2
Dates == {1, 2}
Vals == 0..MaxVal
Keywords == {"A", "B"}

NoAnchor == ""

VARIABLES
    uploaded_files,   \* the raw files of the upload widget, in upload order
    batch_dfs,        \* the loaded batches
    anchor_keywords,  \* the keyword set of each loaded batch
    common_keywords,  \* the intersection of the keyword sets
    anchor_keyword,   \* the anchor in use
    scaling_factor,   \* per batch: date -> factor (df_merged['scaling_factor'])
    normalized_dfs,   \* per batch: the rescaled batch
    final_df,         \* the merged table
    download,         \* the table handed to the export sink
    messages,         \* st.warning / st.error / st.success calls, in order
    pc,               \* position in the script
    rerun,            \* TRUE in the second run over the same uploads
    prev              \* anchor and merged table of the first run

vars == <<uploaded_files, batch_dfs, anchor_keywords, common_keywords,
          anchor_keyword, scaling_factor, normalized_dfs, final_df, download,
          messages, pc, rerun, prev>>

\* ------------------------------------------------------------ numbers
RECURSIVE Gcd(_, _)
Gcd(a, b) == IF b = 0 THEN a ELSE Gcd(b, a % b)

NaN == <<0, 0>>
Inf == <<1, 0>>
Zero == <<0, 1>>
One == <<1, 1>>

Norm(n, d) == LET g == Gcd(n, d) IN <<n \div g, d \div g>>

\* an integer cell read from the CSV
Num(v) == <<v, 1>>

IsNaN(x) == x = NaN

\* x * y on floats (without rounding)
Mul(x, y) ==
    IF IsNaN(x) \/ IsNaN(y) THEN NaN
    ELSE IF x[2] = 0 \/ y[2] = 0
         THEN (IF x[1] = 0 \/ y[1] = 0 THEN NaN ELSE Inf)
         ELSE Norm(x[1] * y[1], x[2] * y[2])

\* x / y on numpy floats (without rounding): x/0 is inf, 0/0 is nan
Div(x, y) ==
    IF IsNaN(x) \/ IsNaN(y) THEN NaN
    ELSE IF x[2] = 0 THEN (IF y[2] = 0 THEN NaN ELSE Inf)
    ELSE IF y[2] = 0 THEN Zero
    ELSE IF y[1] = 0 THEN (IF x[1] = 0 THEN NaN ELSE Inf)
    ELSE Norm(x[1] * y[2], x[2] * y[1])

\* ------------------------------------------------------------ tables
\* A frame is [columns |-> set of keyword names, data |-> [dates -> [columns -> cell]]].
EmptyFinal == [made |-> FALSE, index |-> {}, columns |-> <<>>, data |-> <<>>]

RECURSIVE SetToSeq(_)
SetToSeq(S) ==
    IF S = {} THEN <<>>
    ELSE LET x == CHOOSE y \in S : TRUE IN <<x>> \o SetToSeq(S \ {x})

RECURSIVE SumSeq(_)
SumSeq(s) == IF s = <<>> THEN 0 ELSE Head(s) + SumSeq(Tail(s))

\* rows of a raw file: the rows with a well-formed date and those without
FileSize(f) == Cardinality(DOMAIN f.rows) + f.bad

UploadedRows == SumSeq([i \in DOMAIN uploaded_files |-> FileSize(uploaded_files[i])])

\* ------------------------------------------------------------ upload
\* A raw file (title line skipped, first column renamed 'date'): its keyword
\* columns, its rows whose date text is well-formed (keyed by the date) and the
\* number of rows whose date text matches no format.
Upload ==
    /\ pc = "upload"
    /\ Len(uploaded_files) < MaxFiles
    /\ \E cols \in SUBSET Keywords, dts \in SUBSET Dates, bad \in 0..MaxRows :
         /\ UploadedRows + Cardinality(dts) + bad <= MaxRows
         /\ \E rows \in [dts -> [cols -> Vals]] :
              uploaded_files' = Append(uploaded_files,
                                       [columns |-> cols, rows |-> rows, bad |-> bad])
    /\ UNCHANGED <<batch_dfs, anchor_keywords, common_keywords, anchor_keyword,
                   scaling_factor, normalized_dfs, final_df, download, messages,
                   pc, rerun, prev>>

\* if uploaded_files: batch_dfs = []; anchor_keywords = []
Start ==
    /\ pc = "upload"
    /\ uploaded_files # <<>>
    /\ pc' = "load"
    /\ batch_dfs' = <<>>
    /\ anchor_keywords' = <<>>
    /\ UNCHANGED <<uploaded_files, common_keywords, anchor_keyword, scaling_factor,
                   normalized_dfs, final_df, download, messages, rerun, prev>>

\* ------------------------------------------------------------ loader
\* One of the three strict formats parses the whole date column: pd.to_datetime
\* with format= raises ValueError as soon as one row does not match.
StrictParseOk(f) == f.bad = 0

Message(level, text, file, keyword) ==
    [level |-> level, text |-> text, file |-> file, keyword |-> keyword]

\* mutant of LoadWarnings: the warning is issued for every file
LoadWarningsAlways(i, f) ==
    <<Message("warning", "Could not parse dates with specific formats", i, NoAnchor)>>

\* st.warning before the generic parse
LoadWarnings(i, f) ==
    IF StrictParseOk(f) THEN <<>>
    ELSE <<Message("warning", "Could not parse dates with specific formats", i, NoAnchor)>>

\* The frame after to_datetime and dropna(subset=['date']): the rows whose date
\* did not parse (NaT under errors='coerce') are gone.  The well-formed dates of
\* one file share one format, so the generic parse keeps all of them.
ReadFrame(f) ==
    [columns |-> f.columns,
     data |-> [d \in DOMAIN f.rows |-> [k \in f.columns |-> Num(f.rows[d][k])]]]

\* rows of file f dropped by dropna
DroppedRows(f) == IF StrictParseOk(f) THEN 0 ELSE f.bad

\* keywords = set(df.columns[1:])
KeywordSet(df) == df.columns

\* the body of `for file in uploaded_files`
LoadFile ==
    /\ pc = "load"
    /\ LET i == Len(batch_dfs) + 1
           f == uploaded_files[i]
           df == ReadFrame(f)
       IN /\ messages' = messages \o LoadWarnings(i, f)
          /\ anchor_keywords' = Append(anchor_keywords, KeywordSet(df))
          /\ batch_dfs' = Append(batch_dfs, df)
          /\ pc' = IF i = Len(uploaded_files) THEN "resolve" ELSE "load"
    /\ UNCHANGED <<uploaded_files, common_keywords, anchor_keyword, scaling_factor,
                   normalized_dfs, final_df, download, rerun, prev>>

\* ------------------------------------------------------------ anchor
\* mutant of SetIntersection: the union of the keyword sets
RECURSIVE SetUnionAll(_)
SetUnionAll(sets) ==
    IF Len(sets) = 1 THEN sets[1]
    ELSE SetUnionAll(SubSeq(sets, 1, Len(sets) - 1)) \cup sets[Len(sets)]

\* set.intersection(*sets): the first set narrowed by each of the others
RECURSIVE SetIntersection(_)
SetIntersection(sets) ==
    IF Len(sets) = 1 THEN sets[1]
    ELSE SetIntersection(SubSeq(sets, 1, Len(sets) - 1)) \cap sets[Len(sets)]

\* list(s)[0]: a set of str iterates in hash order, which the language leaves
\* open and string hash randomisation changes from process to process, so any
\* member may come first.
ListHead(s) == s

\* mutant of ResolveAnchor: several candidates stop the run instead of being
\* resolved by list(common_keywords)[0]
ResolveAnchorStopsWhenAmbiguous ==
    /\ pc = "resolve"
    /\ LET common == SetIntersection(anchor_keywords)
       IN /\ common_keywords' = common
          /\ IF Cardinality(common) # 1
             THEN /\ messages' = Append(messages,
                        Message("error", "No common keyword found across all batches.",
                                0, NoAnchor))
                  /\ pc' = "failed"
                  /\ UNCHANGED <<anchor_keyword, normalized_dfs, scaling_factor>>
             ELSE \E a \in ListHead(common) :
                  /\ anchor_keyword' = a
                  /\ messages' = Append(messages,
                        Message("success", "Auto-detected anchor keyword", 0, a))
                  /\ normalized_dfs' = <<>>
                  /\ scaling_factor' = <<>>
                  /\ pc' = "scale"
    /\ UNCHANGED <<uploaded_files, batch_dfs, anchor_keywords, final_df, download,
                   rerun, prev>>

ResolveAnchor ==
    /\ pc = "resolve"
    /\ LET common == SetIntersection(anchor_keywords)
       IN /\ common_keywords' = common
          /\ IF Cardinality(common) = 0
             THEN /\ messages' = Append(messages,
                        Message("error", "No common keyword found across all batches.",
                                0, NoAnchor))
                  /\ pc' = "failed"
                  /\ UNCHANGED <<anchor_keyword, normalized_dfs, scaling_factor>>
             ELSE \E a \in ListHead(common) :
                  /\ anchor_keyword' = a
                  /\ messages' = Append(messages,
                        Message("success", "Auto-detected anchor keyword", 0, a))
                  /\ normalized_dfs' = <<>>
                  /\ scaling_factor' = <<>>
                  /\ pc' = "scale"
    /\ UNCHANGED <<uploaded_files, batch_dfs, anchor_keywords, final_df, download,
                   rerun, prev>>

\* ------------------------------------------------------------ scaling
\* anchor_reference = batch_dfs[0][["date", anchor_keyword]] renamed to anchor_ref
AnchorReference(dfs, anchor) ==
    [d \in DOMAIN dfs[1].data |-> dfs[1].data[d][anchor]]

\* mutant of LeftMerge: how='inner'
InnerMerge(left, right) ==
    [d \in DOMAIN left \cap DOMAIN right |-> right[d]]

\* left.merge(right, on="date", how='left') for a one-column right frame keyed
\* by unique dates: every left row is kept, and a date the right frame lacks
\* gets NaN.
LeftMerge(left, right) ==
    [d \in DOMAIN left |-> IF d \in DOMAIN right THEN right[d] ELSE NaN]

\* mutant of ScalingFactor: the ratio taken the wrong way round
ScalingFactorInverted(anchor_ref, anchor) ==
    IF anchor # Zero THEN Div(anchor, anchor_ref) ELSE NaN

\* mutant of ScalingFactor: no guard against a zero anchor
ScalingFactorUnguarded(anchor_ref, anchor) == Div(anchor_ref, anchor)

\* np.where(anchor != 0, anchor_ref / anchor, np.nan), one row
ScalingFactor(anchor_ref, anchor) ==
    IF anchor # Zero THEN Div(anchor_ref, anchor) ELSE NaN

\* df_merged['scaling_factor']
RowFactors(df, reference, anchor) ==
    LET merged == LeftMerge(df.data, reference)
    IN [d \in DOMAIN merged |-> ScalingFactor(merged[d], df.data[d][anchor])]

\* norm_df: every column but 'date' and 'scaling_factor' times the row's factor
Rescale(df, factors) ==
    LET byRow == LeftMerge(df.data, factors)
    IN [columns |-> df.columns,
        data |-> [d \in DOMAIN byRow |->
                    [k \in df.columns |-> Mul(df.data[d][k], byRow[d])]]]

\* the body of `for i, df in enumerate(batch_dfs)`
Normalize ==
    /\ pc = "scale"
    /\ LET i == Len(normalized_dfs) + 1
           df == batch_dfs[i]
           factors == RowFactors(df, AnchorReference(batch_dfs, anchor_keyword),
                                 anchor_keyword)
       IN /\ scaling_factor' = Append(scaling_factor, factors)
          /\ normalized_dfs' = Append(normalized_dfs, Rescale(df, factors))
          /\ pc' = IF i = Len(batch_dfs) THEN "merge" ELSE "scale"
    /\ UNCHANGED <<uploaded_files, batch_dfs, anchor_keywords, common_keywords,
                   anchor_keyword, final_df, download, messages, rerun, prev>>

\* ------------------------------------------------------------ merger
\* the column labels of pd.concat(dfs, axis=1): every batch's columns, batch
\* after batch, each with the batch it comes from
RECURSIVE ConcatColumns(_, _)
ConcatColumns(dfs, i) ==
    IF i > Len(dfs) THEN <<>>
    ELSE LET own == SetToSeq(dfs[i].columns)
         IN [p \in DOMAIN own |-> [batch |-> i, name |-> own[p]]]
            \o ConcatColumns(dfs, i + 1)

\* mutant of ConcatIndex: join='inner'
ConcatIndexInner(dfs) ==
    {d \in Dates : \A i \in DOMAIN dfs : d \in DOMAIN dfs[i].data}

\* the index of pd.concat(dfs, axis=1), join='outer'
ConcatIndex(dfs) == UNION {DOMAIN dfs[i].data : i \in DOMAIN dfs}

\* mutant of Duplicated: keep='last'
DuplicatedKeepLast(cols) ==
    [p \in DOMAIN cols |-> \E q \in (p + 1)..Len(cols) : cols[q].name = cols[p].name]

\* columns.duplicated(): TRUE at a label seen at an earlier position
Duplicated(cols) ==
    [p \in DOMAIN cols |-> \E q \in 1..(p - 1) : cols[q].name = cols[p].name]

\* cols[mask] for a boolean mask
RECURSIVE SelectColumns(_, _)
SelectColumns(cols, mask) ==
    IF cols = <<>> THEN <<>>
    ELSE (IF Head(mask) THEN <<Head(cols)>> ELSE <<>>)
         \o SelectColumns(Tail(cols), Tail(mask))

\* final_df = pd.concat(normalized_dfs, axis=1);
\* final_df = final_df.loc[:, ~final_df.columns.duplicated()]
MergeFrames(dfs) ==
    LET cols == ConcatColumns(dfs, 1)
        dup == Duplicated(cols)
        kept == SelectColumns(cols, [p \in DOMAIN cols |-> ~dup[p]])
        index == ConcatIndex(dfs)
    IN [made |-> TRUE,
        index |-> index,
        columns |-> [p \in DOMAIN kept |-> kept[p].name],
        data |-> [d \in index |->
                    [p \in DOMAIN kept |->
                       IF d \in DOMAIN dfs[kept[p].batch].data
                       THEN dfs[kept[p].batch].data[d][kept[p].name]
                       ELSE NaN]]]

Merge ==
    /\ pc = "merge"
    /\ final_df' = MergeFrames(normalized_dfs)
    /\ pc' = "export"
    /\ UNCHANGED <<uploaded_files, batch_dfs, anchor_keywords, common_keywords,
                   anchor_keyword, scaling_factor, normalized_dfs, download,
                   messages, rerun, prev>>

\* the chart and the Excel download of final_df
Export ==
    /\ pc = "export"
    /\ download' = final_df
    /\ pc' = "done"
    /\ UNCHANGED <<uploaded_files, batch_dfs, anchor_keywords, common_keywords,
                   anchor_keyword, scaling_factor, normalized_dfs, final_df,
                   messages, rerun, prev>>

\* ------------------------------------------------------------ second run
\* The script runs again over the same uploads (a widget interaction, or the
\* app restarted and the same files uploaded in the same order).  prev keeps
\* the first run's anchor and table for comparison.
Rerun ==
    /\ pc = "done"
    /\ ~rerun
    /\ rerun' = TRUE
    /\ prev' = [anchor |-> anchor_keyword, table |-> final_df]
    /\ batch_dfs' = <<>>
    /\ anchor_keywords' = <<>>
    /\ common_keywords' = {}
    /\ anchor_keyword' = NoAnchor
    /\ scaling_factor' = <<>>
    /\ normalized_dfs' = <<>>
    /\ final_df' = EmptyFinal
    /\ download' = EmptyFinal
    /\ messages' = <<>>
    /\ pc' = "load"
    /\ UNCHANGED uploaded_files

\* ------------------------------------------------------------ specification
Init ==
    /\ uploaded_files = <<>>
    /\ batch_dfs = <<>>
    /\ anchor_keywords = <<>>
    /\ common_keywords = {}
    /\ anchor_keyword = NoAnchor
    /\ scaling_factor = <<>>
    /\ normalized_dfs = <<>>
    /\ final_df = EmptyFinal
    /\ download = EmptyFinal
    /\ messages = <<>>
    /\ pc = "upload"
    /\ rerun = FALSE
    /\ prev = [anchor |-> NoAnchor, table |-> EmptyFinal]

Next ==
    \/ Upload
    \/ Start
    \/ LoadFile
    \/ ResolveAnchor
    \/ Normalize
    \/ Merge
    \/ Export

Spec == Init /\ [][Next]_vars

NextRerun == Next \/ Rerun

SpecRerun == Init /\ [][NextRerun]_vars

\* ------------------------------------------------------------ properties
RefDates == DOMAIN batch_dfs[1].data

\* the anchor value of batch i at date d, as loaded
AnchorValue(i, d) == batch_dfs[i].data[d][anchor_keyword]

Scaled == DOMAIN normalized_dfs

AllKeywords(dfs) == UNION {dfs[i].columns : i \in DOMAIN dfs}

\* the first batch, in load order, that has column kw
FirstBatch(dfs, kw) ==
    CHOOSE i \in DOMAIN dfs :
        /\ kw \in dfs[i].columns
        /\ \A j \in 1..(i - 1) : kw \notin dfs[j].columns

\* the rows whose anchor value is 0
UndefinedRows ==
    {<<i, d>> \in Scaled \X Dates :
        d \in DOMAIN batch_dfs[i].data /\ AnchorValue(i, d) = Zero}

\* the rows whose date the reference series lacks
AlignmentLostRows ==
    {<<i, d>> \in Scaled \X Dates : d \in DOMAIN batch_dfs[i].data /\ d \notin RefDates}

DateDroppedRows ==
    SumSeq([i \in DOMAIN uploaded_files |-> DroppedRows(uploaded_files[i])])

Warnings == {p \in DOMAIN messages : messages[p].level = "warning"}

\* C1 as stated: after scaling, at every date a non-reference batch shares with
\* the reference series, the batch's normalized anchor value equals the
\* reference batch's anchor value.
C1_AnchorConvergence_Original ==
    \A i \in Scaled : i > 1 =>
        \A d \in DOMAIN batch_dfs[i].data \cap RefDates :
            /\ d \in DOMAIN normalized_dfs[i].data
            /\ normalized_dfs[i].data[d][anchor_keyword] = AnchorValue(1, d)

\* C1 amended: the same, at the shared dates where the batch's own anchor value
\* is not 0.
C1_AnchorConvergence ==
    \A i \in Scaled : i > 1 =>
        \A d \in DOMAIN batch_dfs[i].data \cap RefDates :
            AnchorValue(i, d) # Zero =>
                /\ d \in DOMAIN normalized_dfs[i].data
                /\ normalized_dfs[i].data[d][anchor_keyword] = AnchorValue(1, d)

C1_Witness ==
    \E i \in Scaled : i > 1 /\
        \E d \in DOMAIN batch_dfs[i].data \cap RefDates :
            /\ AnchorValue(i, d) # Zero
            /\ AnchorValue(i, d) # AnchorValue(1, d)
            /\ AnchorValue(1, d) # Zero

\* C2: a batch row whose anchor value is 0 has the undefined marker (NaN) as its
\* scaling factor and in every value column of the normalized batch: never 0,
\* never the input value, never an infinity.
C2_ZeroDivisionSafety ==
    \A i \in Scaled : \A d \in DOMAIN batch_dfs[i].data :
        AnchorValue(i, d) = Zero =>
            /\ d \in DOMAIN scaling_factor[i]
            /\ scaling_factor[i][d] = NaN
            /\ d \in DOMAIN normalized_dfs[i].data
            /\ \A k \in batch_dfs[i].columns : normalized_dfs[i].data[d][k] = NaN

C2_Witness ==
    \E i \in Scaled : i > 1 /\
        \E d \in DOMAIN batch_dfs[i].data \cap RefDates :
            /\ AnchorValue(i, d) = Zero
            /\ AnchorValue(1, d) # Zero
            /\ \E k \in batch_dfs[i].columns : batch_dfs[i].data[d][k] # Zero

\* C3: once the anchor is resolved, the candidate set is exactly the keywords
\* every loaded batch has; an empty candidate set ends the run with the error
\* and with nothing scaled, merged or exported, and a non-empty one gives an
\* anchor that is one of the candidates.
C3_AnchorResolution ==
    pc \in {"scale", "merge", "export", "done", "failed"} =>
        /\ common_keywords =
               {k \in Keywords : \A i \in DOMAIN batch_dfs : k \in batch_dfs[i].columns}
        /\ common_keywords = {} =>
               /\ pc = "failed"
               /\ messages[Len(messages)].level = "error"
               /\ anchor_keyword = NoAnchor
               /\ scaling_factor = <<>>
               /\ normalized_dfs = <<>>
               /\ ~final_df.made
               /\ ~download.made
        /\ common_keywords # {} =>
               /\ pc # "failed"
               /\ anchor_keyword \in common_keywords

C3_Witness ==
    /\ pc = "failed"
    /\ Len(batch_dfs) > 1
    /\ \A i \in DOMAIN batch_dfs : batch_dfs[i].columns # {}

\* C4 as stated: with more than one candidate the scaling stage is not entered
\* before a selection is supplied.  The script reads no selection (it has no
\* widget or parameter for one), so none is ever supplied.
C4_AmbiguousAnchor_Original ==
    Cardinality(common_keywords) > 1 => pc \notin {"scale", "merge", "export", "done"}

\* C4 amended: with more than one candidate the run goes on to the scaling stage
\* without any selection, with an anchor the script itself takes from the
\* candidate set and announces.
C4_AmbiguousAnchor ==
    (Cardinality(common_keywords) > 1 /\ pc \notin {"upload", "load", "resolve"}) =>
        /\ pc \in {"scale", "merge", "export", "done"}
        /\ anchor_keyword \in common_keywords
        /\ messages[Len(messages)] =
               Message("success", "Auto-detected anchor keyword", 0, anchor_keyword)

C4_Witness ==
    /\ Cardinality(common_keywords) > 1
    /\ pc = "scale"
    /\ Len(batch_dfs) > 1

\* C5: the reference batch passes through the scaling stage unchanged: every
\* one of its rows has factor 1 and its input values, rows whose anchor value
\* is 0 included.
C5_IdentityOnReference ==
    1 \in Scaled =>
        \A d \in DOMAIN batch_dfs[1].data :
            /\ d \in DOMAIN normalized_dfs[1].data
            /\ scaling_factor[1][d] = One
            /\ normalized_dfs[1].data[d] = batch_dfs[1].data[d]

\* C6 as stated: a non-reference batch's normalized output has exactly the rows
\* whose date the reference series has.
C6_InnerJoin_Original ==
    \A i \in Scaled : i > 1 =>
        DOMAIN normalized_dfs[i].data = DOMAIN batch_dfs[i].data \cap RefDates

\* C6 amended: a non-reference batch's normalized output has exactly the rows of
\* the loaded batch; a row whose date the reference series lacks is kept, with
\* an undefined factor and the undefined marker in every value column.
C6_LeftJoin ==
    \A i \in Scaled : i > 1 =>
        /\ DOMAIN normalized_dfs[i].data = DOMAIN batch_dfs[i].data
        /\ DOMAIN scaling_factor[i] = DOMAIN batch_dfs[i].data
        /\ \A d \in DOMAIN batch_dfs[i].data \ RefDates :
               /\ scaling_factor[i][d] = NaN
               /\ \A k \in batch_dfs[i].columns : normalized_dfs[i].data[d][k] = NaN

C6_Witness ==
    \E i \in Scaled : i > 1 /\
        \E d \in DOMAIN batch_dfs[i].data \ RefDates :
            /\ RefDates # {}
            /\ AnchorValue(i, d) # Zero

\* C7: the merged table has exactly one column per distinct keyword name, and
\* the column of a keyword holds, at every date, the value of the first batch
\* that has the keyword, the no-value marker where that batch lacks the date.
C7_MergerDeduplication ==
    final_df.made =>
        /\ \A p \in DOMAIN final_df.columns :
               final_df.columns[p] \in AllKeywords(normalized_dfs)
        /\ \A kw \in AllKeywords(normalized_dfs) :
               /\ Cardinality({p \in DOMAIN final_df.columns : final_df.columns[p] = kw}) = 1
               /\ \A p \in DOMAIN final_df.columns : final_df.columns[p] = kw =>
                      LET first == normalized_dfs[FirstBatch(normalized_dfs, kw)].data
                      IN \A d \in final_df.index :
                             final_df.data[d][p] =
                                 IF d \in DOMAIN first THEN first[d][kw] ELSE NaN

C7_Witness ==
    /\ final_df.made
    /\ \E kw \in Keywords : \E i, j \in DOMAIN normalized_dfs :
          /\ i < j
          /\ kw \in normalized_dfs[i].columns \cap normalized_dfs[j].columns
          /\ \E d \in DOMAIN normalized_dfs[j].data :
                /\ ~IsNaN(normalized_dfs[j].data[d][kw])
                /\ \/ d \notin DOMAIN normalized_dfs[i].data
                   \/ normalized_dfs[i].data[d][kw] # normalized_dfs[j].data[d][kw]

\* C8: the dates of the merged table are the union of the normalized batches'
\* dates; every cell comes from a batch that has the cell's keyword, and is that
\* batch's normalized value, or the no-value marker where the batch lacks the
\* date.
C8_MergerOuterJoin ==
    final_df.made =>
        /\ final_df.index = UNION {DOMAIN normalized_dfs[i].data : i \in DOMAIN normalized_dfs}
        /\ DOMAIN final_df.data = final_df.index
        /\ \A d \in final_df.index : \A p \in DOMAIN final_df.columns :
               \E i \in DOMAIN normalized_dfs :
                   /\ final_df.columns[p] \in normalized_dfs[i].columns
                   /\ final_df.data[d][p] =
                          IF d \in DOMAIN normalized_dfs[i].data
                          THEN normalized_dfs[i].data[d][final_df.columns[p]]
                          ELSE NaN

C8_Witness ==
    /\ final_df.made
    /\ \E i, j \in DOMAIN normalized_dfs :
          /\ normalized_dfs[i].columns # {}
          /\ normalized_dfs[j].columns # {}
          /\ DOMAIN normalized_dfs[i].data \ DOMAIN normalized_dfs[j].data # {}
          /\ DOMAIN normalized_dfs[j].data \ DOMAIN normalized_dfs[i].data # {}

C10_AnchorDeterminism ==
    (rerun /\ pc = "done") =>
        /\ anchor_keyword = prev.anchor
        /\ final_df = prev.table

====
